---- MODULE Spec2Model ----
(***************************************************************************)
(* TwinEdge Safety Lab backend: sensor ingestion / retrieval over a        *)
(* document collection (src/main.py, ingest_sensor_event and               *)
(* get_recent_readings) and the heuristic risk scorer (assess_risk).       *)
(*                                                                         *)
(* Numbers.  Scores are kept exactly, in sixtieths of a point: with an     *)
(* integral temperature, (t - 25) * 1.2 = 72/60 per degree, g / 12 = 5g/60 *)
(* and a / 3 = 20a/60.  The returned score is kept in tenths of a point.   *)
(* Date-times are instants 1, 2, 3.                                        *)
(***************************************************************************)
EXTENDS Integers, Sequences, FiniteSets, Bags, TLC

VARIABLES
    collection,  \* the documents of the "sensorevent" collection, in store order
    ingested,    \* the events whose ingest call returned an identifier, in call order
    last         \* the most recent call: its input, its outcome and what it returned

vars == <<collection, ingested, last>>

-----------------------------------------------------------------------------
(* Bounds *)

MaxSeed == 2
MaxDocs == 3
MaxLimit == 3
MaxSmallReading == 3

-----------------------------------------------------------------------------
(* Values a document field can hold.  A timestamp-like field is absent,    *)
(* a datetime, or a string; strings are numbered in lexicographic order:   *)
(*   1  ""                       (empty, falsy)                            *)
(*   2  "2024-01-01T00:00:01Z"   (ISO 8601 with a Z suffix, instant 1)     *)
(*   3  "2024-01-01T00:00:02"    (plain ISO 8601, instant 2)               *)
(*   4  "not-a-date"             (no date-time at all)                     *)

Absent == [kind |-> "none", v |-> 0]
DateTime(n) == [kind |-> "datetime", v |-> n]
Str(i) == [kind |-> "str", v |-> i]

StrEmpty == Str(1)
StrIsoZ == Str(2)
StrIso == Str(3)
StrGarbage == Str(4)

\* datetime.fromisoformat(s): the parsed instant, or 0 when it raises.  The
\* Z suffix is accepted from Python 3.11 on and rejected before (py311).
fromisoformat(s, py311) ==
    CASE s = StrIso -> 2
      [] s = StrIsoZ -> IF py311 THEN 1 ELSE 0
      [] OTHER -> 0

\* pydantic's datetime validation of the field SensorEvent.timestamp: the
\* instant of a datetime or of an ISO 8601 string (Z accepted), 0 when the
\* value is missing or no date-time (ValidationError).
pydantic_datetime(x) ==
    CASE x.kind = "datetime" -> x.v
      [] x = StrIso -> 2
      [] x = StrIsoZ -> 1
      [] OTHER -> 0

-----------------------------------------------------------------------------
(* schemas.py *)

\* SensorEvent: the fields the model class declares (location, notes and
\* source are optional or defaulted and play no part in any operation).
SensorEvent(ts, t, g, a) ==
    [timestamp |-> ts, temperature_c |-> t, gas_ppm |-> g, aqi |-> a]

NoEvent == SensorEvent(Absent, 0, 0, 0)

\* Field constraints of SensorEvent: timestamp a date-time, ge=0 on
\* gas_ppm and aqi.
ValidSensorEvent(d) ==
    /\ pydantic_datetime(d.timestamp) # 0
    /\ d.gas_ppm >= 0
    /\ d.aqi >= 0

\* InsightRequest declares three bare fields, with no constraint.
InsightRequest(t, g, a) == [temperature_c |-> t, gas_ppm |-> g, aqi |-> a]

ValidInsightRequest(p) == TRUE

\* InsightResponse: score: float = Field(..., ge=0, le=100), in tenths here.
ValidInsightResponse(r) == r.score >= 0 /\ r.score <= 1000

NoResponse == [score |-> 0, level |-> "", tips |-> <<>>]

-----------------------------------------------------------------------------
(* The document store behind create_document / get_documents *)

Doc(id, created, ev) ==
    [_id |-> id, created_at |-> created, timestamp |-> ev.timestamp,
     temperature_c |-> ev.temperature_c, gas_ppm |-> ev.gas_ppm, aqi |-> ev.aqi]

\* insert-one: the collection with the new document appended; the store
\* assigns the identifier and, optionally, a creation timestamp.
create_document(coll, ev, created) == Append(coll, Doc(Len(coll) + 1, created, ev))

Min(a, b) == IF a <= b THEN a ELSE b
Max(a, b) == IF a >= b THEN a ELSE b

RECURSIVE SubSeqsOf(_, _)
\* The subsequences of s that hold exactly n elements.
SubSeqsOf(s, n) ==
    IF n = 0 THEN {<<>>}
    ELSE IF Len(s) < n THEN {}
    ELSE {<<Head(s)>> \o r : r \in SubSeqsOf(Tail(s), n - 1)}
         \cup SubSeqsOf(Tail(s), n)

\* find(collection, {}, limit): up to `limit` documents, whichever the store
\* picks, as copies.
get_documents(coll, limit) == SubSeqsOf(coll, Min(limit, Len(coll)))

-----------------------------------------------------------------------------
(* get_recent_readings *)

\* Python truthiness of a field value: None and "" are falsy.
Truthy(x) == x.kind = "datetime" \/ (x.kind = "str" /\ x # StrEmpty)

\* key_fn: created_at or timestamp or datetime.now(timezone.utc)
key_fn(d, now) ==
    IF Truthy(d.created_at) THEN d.created_at
    ELSE IF Truthy(d.timestamp) THEN d.timestamp
    ELSE DateTime(now)

\* Python orders datetimes among themselves and strings among themselves;
\* comparing a datetime with a string raises TypeError.
Comparable(keys) == \A i, j \in DOMAIN keys : keys[i].kind = keys[j].kind

KeyGE(x, y) == x.v >= y.v

RECURSIVE InsertDesc(_, _, _)
\* d placed after every element of the sorted list whose key is >= its own.
InsertDesc(sorted_docs, d, now) ==
    IF sorted_docs = <<>> THEN <<d>>
    ELSE IF KeyGE(key_fn(Head(sorted_docs), now), key_fn(d, now))
         THEN <<Head(sorted_docs)>> \o InsertDesc(Tail(sorted_docs), d, now)
         ELSE <<d>> \o sorted_docs

RECURSIVE SortFrom(_, _, _)
SortFrom(acc, docs, now) ==
    IF docs = <<>> THEN acc
    ELSE SortFrom(InsertDesc(acc, Head(docs), now), Tail(docs), now)

\* Variant: the sort left out.
docs_unsorted(docs, now) == docs

\* sorted(docs, key=key_fn, reverse=True): stable, greatest key first.
docs_sorted(docs, now) == SortFrom(<<>>, docs, now)

\* The loop body's timestamp step: a string timestamp is replaced by the
\* parsed datetime; when parsing raises, the field is left as it is.
NormalizeTimestamp(x, py311) ==
    IF x.kind = "str" /\ fromisoformat(x, py311) # 0
    THEN DateTime(fromisoformat(x, py311))
    ELSE x

\* d after d.pop("_id", None) and the timestamp step: the keyword
\* arguments handed to SensorEvent(**d).
Popped(d, py311) ==
    [created_at |-> d.created_at, timestamp |-> NormalizeTimestamp(d.timestamp, py311),
     temperature_c |-> d.temperature_c, gas_ppm |-> d.gas_ppm, aqi |-> d.aqi]

\* SensorEvent(**d): the declared fields, validated and coerced; keys the
\* model does not declare (created_at) are ignored.
SensorEventOf(kw) ==
    SensorEvent(DateTime(pydantic_datetime(kw.timestamp)), kw.temperature_c,
                kw.gas_ppm, kw.aqi)

\* Variant: the append placed after the loop, keeping the last document only.
ItemsOfLastOnly(sorted_docs, py311) ==
    IF sorted_docs = <<>> THEN <<>>
    ELSE <<SensorEventOf(Popped(sorted_docs[Len(sorted_docs)], py311))>>

\* The loop over docs_sorted: one SensorEvent appended per document.
ItemsOf(sorted_docs, py311) ==
    [i \in DOMAIN sorted_docs |-> SensorEventOf(Popped(sorted_docs[i], py311))]

-----------------------------------------------------------------------------
(* assess_risk *)

\* The heuristic weighting, in sixtieths of a point:
\* max(0.0, t - 25) * 1.2 + g / 12 + a / 3
raw_score(t, g, a) == 72 * Max(0, t - 25) + 5 * g + 20 * a

\* Variant: the upper clamp left out.
ClampNoCeiling(s) == Max(0, s)

\* Variant: the ceiling mistyped as 10.0.
ClampCeilingTen(s) == Max(0, Min(600, s))

\* score = max(0.0, min(100.0, score))
Clamp(s) == Max(0, Min(6000, s))

\* Variant: the readings compared with >= instead of >.
LevelOfInclusive(score, g, a) ==
    IF score >= 4200 \/ g >= 800 \/ a >= 150 THEN "High risk"
    ELSE IF score >= 2700 \/ g >= 600 \/ a >= 100 THEN "Elevated"
    ELSE "Normal"

\* The if / elif / else chain on the clamped score and the raw readings.
LevelOf(score, g, a) ==
    IF score >= 4200 \/ g > 800 \/ a > 150 THEN "High risk"
    ELSE IF score >= 2700 \/ g > 600 \/ a > 100 THEN "Elevated"
    ELSE "Normal"

TipsOf(level) ==
    CASE level = "High risk" ->
            <<"Evacuate non-essential personnel",
              "Engage ventilation and gas suppression systems",
              "Activate incident command protocol">>
      [] level = "Elevated" ->
            <<"Increase monitoring frequency",
              "Prepare PPE and standby team",
              "Verify sensor calibration">>
      [] OTHER ->
            <<"Continue routine monitoring",
              "Maintain clear egress routes">>

\* round(score, 1), in tenths.  A score that lies exactly halfway between
\* two tenths is rounded on its binary floating-point value, which the sum
\* may leave on either side: both neighbours are possible results.
round1(score) ==
    IF score % 6 < 3 THEN {score \div 6}
    ELSE IF score % 6 > 3 THEN {score \div 6 + 1}
    ELSE {score \div 6, score \div 6 + 1}

InsightResponse(tenths, level, tips) == [score |-> tenths, level |-> level, tips |-> tips]

-----------------------------------------------------------------------------
(* The calls *)

Call(op, outcome) ==
    [op |-> op, outcome |-> outcome, event |-> NoEvent, id |-> 0,
     request |-> InsightRequest(0, 0, 0), resp |-> NoResponse,
     limit |-> 0, fetched |-> <<>>, sorted_docs |-> <<>>, items |-> <<>>,
     store_calls |-> 0, store_failed |-> FALSE, detail |-> ""]

\* Documents that reached the collection by other routes than ingest
\* (historical records), in the shapes of created_at / timestamp the
\* retrieval code distinguishes.
SeedDocs ==
    {Doc(0, Absent, SensorEvent(ts, 20, 0, 0)) :
        ts \in {Absent, DateTime(1), StrIsoZ, StrIso, StrGarbage}}

SeedCollections ==
    UNION {{[i \in 1..n |-> [f[i] EXCEPT !._id = i]] : f \in [1..n -> SeedDocs]} :
           n \in 0..MaxSeed}

Init ==
    /\ collection \in SeedCollections
    /\ ingested = <<>>
    /\ last = Call("none", "none")

\* The request bodies a caller posts to /api/sensors/ingest.
IngestInputs ==
    {SensorEvent(DateTime(n), 20, 0, 0) : n \in {1, 2}}
    \cup {SensorEvent(DateTime(1), 20, -1, 0), SensorEvent(DateTime(1), 20, 0, -1)}

\* The creation timestamp the store gives a new document, if it gives one.
StoreStamps == {Absent, DateTime(2)}

\* Variant: the insert repeated, as a retry after a lost reply would.
PersistedTwice(coll, event, created) ==
    create_document(create_document(coll, event, created), event, created)

\* The handler's one call create_document("sensorevent", event).
Persisted(coll, event, created) == create_document(coll, event, created)

\* Variant: the except branch dropped, the failure swallowed.
IngestOutcomeSwallowed(store_ok) == "ok"

\* What the handler returns once create_document has answered or raised:
\* {"ok": True, "id": inserted_id}, or HTTPException(500, str(e)).
IngestOutcome(store_ok) == IF store_ok THEN "ok" ELSE "HTTPException"

\* POST /api/sensors/ingest.  The body is validated against SensorEvent
\* before the handler runs; the handler calls create_document once and
\* turns any exception into HTTPException(500).
ingest_sensor_event ==
    \E event \in IngestInputs :
        IF ~ValidSensorEvent(event)
        THEN /\ last' = [Call("ingest", "ValidationError") EXCEPT !.event = event]
             /\ UNCHANGED <<collection, ingested>>
        ELSE \/ /\ last' = [Call("ingest", IngestOutcome(FALSE)) EXCEPT
                               !.event = event, !.store_calls = 1,
                               !.store_failed = TRUE, !.detail = "store error"]
                /\ UNCHANGED <<collection, ingested>>
             \/ /\ Len(collection) < MaxDocs
                /\ \E created \in StoreStamps :
                       collection' = Persisted(collection, event, created)
                /\ ingested' = Append(ingested, event)
                /\ last' = [Call("ingest", IngestOutcome(TRUE)) EXCEPT
                               !.event = event, !.store_calls = 1,
                               !.id = Len(collection) + 1]

\* Variant: the parameter's default passed on instead of its value.
FindLimitDefault(limit) == 20

\* The limit the handler hands to get_documents: limit=limit.
FindLimit(limit) == limit

\* The handler's result once the store has answered with docs.
RecentResult(limit, docs, now, py311) ==
    LET keys == [i \in DOMAIN docs |-> key_fn(docs[i], now)]
        base == [Call("recent", "HTTPException") EXCEPT
                    !.limit = limit, !.fetched = docs, !.store_calls = 1]
    IN  IF ~Comparable(keys)
        THEN [base EXCEPT !.detail = "TypeError"]
        ELSE LET ds == docs_sorted(docs, now)
             IN  IF \E i \in DOMAIN ds : ~ValidSensorEvent(Popped(ds[i], py311))
                 THEN [base EXCEPT !.sorted_docs = ds, !.detail = "ValidationError"]
                 ELSE [base EXCEPT !.outcome = "ok", !.sorted_docs = ds,
                                   !.items = ItemsOf(ds, py311)]

\* GET /api/sensors/recent?limit=...
get_recent_readings ==
    \E limit \in 0..MaxLimit :
        /\ UNCHANGED <<collection, ingested>>
        /\ \/ last' = [Call("recent", "HTTPException") EXCEPT
                          !.limit = limit, !.store_calls = 1, !.store_failed = TRUE,
                          !.detail = "store error"]
           \/ last' \in {RecentResult(limit, docs, now, py311) :
                            docs \in get_documents(collection, FindLimit(limit)),
                            now \in {1, 3}, py311 \in BOOLEAN}

\* The handler's result for a request that passed validation.
AssessResult(p, tenths) ==
    LET score == Clamp(raw_score(p.temperature_c, p.gas_ppm, p.aqi))
        level == LevelOf(score, p.gas_ppm, p.aqi)
        resp == InsightResponse(tenths, level, TipsOf(level))
    IN  IF ValidInsightResponse(resp)
        THEN [Call("assess", "ok") EXCEPT !.request = p, !.resp = resp]
        ELSE [Call("assess", "HTTPException") EXCEPT !.request = p]

\* POST /api/insights/assess with the request body p.
assess(p) ==
    /\ UNCHANGED <<collection, ingested>>
    /\ IF ~ValidInsightRequest(p)
       THEN last' = [Call("assess", "ValidationError") EXCEPT !.request = p]
       ELSE \E tenths \in round1(Clamp(raw_score(p.temperature_c, p.gas_ppm, p.aqi))) :
                last' = AssessResult(p, tenths)

\* The request bodies a caller posts to /api/insights/assess.
AssessInputs ==
    {InsightRequest(20, 0, 0), InsightRequest(90, 700, 0),
     InsightRequest(20, -1, 0), InsightRequest(20, 0, -1)}

assess_risk == \E p \in AssessInputs : assess(p)

Next == ingest_sensor_event \/ get_recent_readings \/ assess_risk

Spec == Init /\ [][Next]_vars

\* The scorer alone: a request drawn from a grid of readings around every
\* threshold, then assessed.
Temperatures == {-5, 24, 25, 26, 30, 50, 62, 63, 83, 84, 110}
GasReadings == (-2..MaxSmallReading) \cup {9, 540, 600, 601, 800, 801, 840, 1200}
AqiReadings == (-2..MaxSmallReading) \cup {100, 101, 135, 150, 151, 210, 300, 500}

InitScorer ==
    /\ collection = <<>>
    /\ ingested = <<>>
    /\ \E t \in Temperatures, g \in GasReadings, a \in AqiReadings :
           last = [Call("none", "none") EXCEPT !.request = InsightRequest(t, g, a)]

assess_risk_pending == last.op = "none" /\ assess(last.request)

SpecScorer == InitScorer /\ [][assess_risk_pending]_vars

-----------------------------------------------------------------------------
(* Properties *)

Req == last.request
Resp == last.resp

\* The step-1 score of the request assessed last, in sixtieths of a point.
Step1 == 72 * (IF Req.temperature_c > 25 THEN Req.temperature_c - 25 ELSE 0)
         + 5 * Req.gas_ppm + 20 * Req.aqi

Step1Clamped == IF Step1 > 6000 THEN 6000 ELSE IF Step1 < 0 THEN 0 ELSE Step1

\* C1: for every assess input with gas_ppm >= 0 and aqi >= 0 the call
\* returns a score that is the step-1 score clamped to [0, 100] and rounded
\* to the nearest tenth (so it lies in [0, 100]); (25, 0, 500) gives 100.0
\* and (30, 0, 0) gives 6.0.
C1_ScoreClampedRounded ==
    (last.op = "assess" /\ Req.gas_ppm >= 0 /\ Req.aqi >= 0) =>
        /\ last.outcome = "ok"
        /\ Resp.score >= 0 /\ Resp.score <= 1000
        /\ 6 * Resp.score - Step1Clamped <= 3
        /\ Step1Clamped - 6 * Resp.score <= 3
        /\ (Req = InsightRequest(25, 0, 500) => Resp.score = 1000)
        /\ (Req = InsightRequest(30, 0, 0) => Resp.score = 60)

C1_Witness ==
    /\ last.op = "assess" /\ last.outcome = "ok"
    /\ Req = InsightRequest(25, 0, 500)
    /\ Step1 > 6000
    /\ Resp.score = 1000

HighCondition == Step1 >= 4200 \/ Req.gas_ppm > 800 \/ Req.aqi > 150
ElevatedCondition == Step1 >= 2700 \/ Req.gas_ppm > 600 \/ Req.aqi > 100

\* C2: the level is "High risk" exactly when s >= 70 or gas_ppm > 800 or
\* aqi > 150, otherwise "Elevated" exactly when s >= 45 or gas_ppm > 600 or
\* aqi > 100, otherwise "Normal" (s the step-1 score), and the tips are the
\* fixed list of that level: 3 for High risk, 3 for Elevated, 2 for Normal.
C2_LevelChainAndTips ==
    (last.op = "assess" /\ last.outcome = "ok") =>
        /\ Resp.level \in {"High risk", "Elevated", "Normal"}
        /\ (Resp.level = "High risk") <=> HighCondition
        /\ (Resp.level = "Elevated") <=> (~HighCondition /\ ElevatedCondition)
        /\ (Resp.level = "Normal") <=> (~HighCondition /\ ~ElevatedCondition)
        /\ Resp.level = "High risk" =>
              Resp.tips = <<"Evacuate non-essential personnel",
                            "Engage ventilation and gas suppression systems",
                            "Activate incident command protocol">>
        /\ Resp.level = "Elevated" =>
              Resp.tips = <<"Increase monitoring frequency",
                            "Prepare PPE and standby team",
                            "Verify sensor calibration">>
        /\ Resp.level = "Normal" =>
              Resp.tips = <<"Continue routine monitoring",
                            "Maintain clear egress routes">>

C2_Witness ==
    /\ last.op = "assess" /\ last.outcome = "ok"
    /\ Req = InsightRequest(25, 800, 0)
    /\ Resp.level = "Elevated"
    /\ Len(Resp.tips) = 3

\* C3: a negative gas_ppm or aqi is rejected with a ValidationError on
\* ingest input and on assess input: ingest never reaches the store, and
\* assess never returns an InsightResponse.
C3_NegativeReadingsRejected ==
    /\ (last.op = "ingest" /\ (last.event.gas_ppm < 0 \/ last.event.aqi < 0)) =>
           (last.outcome = "ValidationError" /\ last.store_calls = 0)
    /\ (last.op = "assess" /\ (Req.gas_ppm < 0 \/ Req.aqi < 0)) =>
           last.outcome = "ValidationError"

\* The number of times e occurs in the sequence s.
Count(s, e) == Cardinality({i \in DOMAIN s : s[i] = e})

SameMultiset(s, t) ==
    /\ Len(s) = Len(t)
    /\ \A i \in DOMAIN s : Count(s, s[i]) = Count(t, s[i])

\* C4: from an empty collection, after N events were ingested with
\* success, recent(limit=N) succeeds (the store not failing) and returns
\* exactly those N events as a multiset, none carrying the identifier.
C4_IngestThenRetrieve ==
    (/\ last.op = "recent" /\ ~last.store_failed
     /\ Len(collection) = Len(ingested)
     /\ last.limit = Len(ingested)) =>
        /\ last.outcome = "ok"
        /\ SameMultiset(last.items, ingested)
        /\ \A i \in DOMAIN last.items : "_id" \notin DOMAIN last.items[i]

C4_Witness ==
    /\ last.op = "recent" /\ last.outcome = "ok"
    /\ Len(ingested) = 2 /\ Len(collection) = 2 /\ last.limit = 2
    /\ ingested[1] # ingested[2]
    /\ Len(last.items) = 2

\* A record's sort key: its creation timestamp when present, otherwise its
\* domain timestamp.
HasKey(d) == d.created_at # Absent \/ d.timestamp # Absent
RecordKey(d) == IF d.created_at # Absent THEN d.created_at ELSE d.timestamp

\* C5: a successful recent call returns the fetched records in descending
\* order of their keys: of two adjacent items that both have a key, the
\* earlier one's key is >= the later one's.
C5_MostRecentFirst ==
    (last.op = "recent" /\ last.outcome = "ok") =>
        /\ SameMultiset(last.sorted_docs, last.fetched)
        /\ Len(last.items) = Len(last.sorted_docs)
        /\ \A i \in DOMAIN last.items :
               last.items[i].timestamp.v = pydantic_datetime(last.sorted_docs[i].timestamp)
        /\ \A i \in 1..(Len(last.sorted_docs) - 1) :
               (HasKey(last.sorted_docs[i]) /\ HasKey(last.sorted_docs[i + 1])) =>
                   /\ RecordKey(last.sorted_docs[i]).kind
                          = RecordKey(last.sorted_docs[i + 1]).kind
                   /\ RecordKey(last.sorted_docs[i]).v
                          >= RecordKey(last.sorted_docs[i + 1]).v

C5_Witness ==
    /\ last.op = "recent" /\ last.outcome = "ok"
    /\ Len(last.items) >= 2
    /\ last.sorted_docs # last.fetched
    /\ RecordKey(last.sorted_docs[1]).v > RecordKey(last.sorted_docs[2]).v

\* C6: a fetched record whose timestamp is a string that is no date-time
\* does not fail recent: the call succeeds and returns every fetched
\* record, that one with its original timestamp value.
C6_UnparsedTimestampTolerated ==
    (/\ last.op = "recent" /\ ~last.store_failed
     /\ \E i \in DOMAIN last.fetched : last.fetched[i].timestamp = StrGarbage) =>
        /\ last.outcome = "ok"
        /\ Len(last.items) = Len(last.fetched)

\* C7: a store failure is never swallowed and never retried: the call ends
\* with the failure outcome and its cause, never with an identifier or a
\* result sequence, and the store is invoked at most once per call.
C7_StoreFailureSurfaced ==
    /\ last.store_calls <= 1
    /\ last.store_failed =>
           /\ last.outcome = "HTTPException"
           /\ last.detail = "store error"
           /\ last.id = 0
           /\ last.items = <<>>
           /\ last.store_calls = 1
    /\ last.outcome = "ok" => ~last.store_failed

C7_Witness ==
    /\ last.op = "ingest"
    /\ last.store_failed
    /\ last.outcome = "HTTPException"

\* C8: a successful recent(limit), limit >= 0, returns at most limit
\* records, and recent(limit=0) returns the empty sequence without error.
C8_LimitBoundsResult ==
    /\ (last.op = "recent" /\ last.outcome = "ok") => Len(last.items) <= last.limit
    /\ (last.op = "recent" /\ last.limit = 0 /\ ~last.store_failed) =>
           (last.outcome = "ok" /\ last.items = <<>>)

C8_Witness ==
    /\ last.op = "recent" /\ last.outcome = "ok"
    /\ last.limit = 1
    /\ Len(collection) >= 2
    /\ Len(last.items) = 1

\* C9: the level the code computes from the clamped score is the level the
\* same chain yields on the unclamped step-1 score, for every accepted input.
C9_ClampKeepsLevel ==
    (last.op = "assess" /\ last.outcome = "ok") =>
        Resp.level = LevelOf(Step1, Req.gas_ppm, Req.aqi)

C9_Witness ==
    /\ last.op = "assess" /\ last.outcome = "ok"
    /\ Step1 > 6000
    /\ Req.gas_ppm <= 800 /\ Req.aqi <= 150
    /\ Resp.level = "High risk"

\* C10: a persisted record is never modified or removed: a successful
\* ingest appends exactly one record, and every other call (a rejected or
\* failed ingest, recent, assess) leaves the collection as it was.
C10_RecordsImmutable ==
    [][/\ Len(collection') >= Len(collection)
       /\ SubSeq(collection', 1, Len(collection)) = collection
       /\ (last'.op = "ingest" /\ last'.outcome = "ok")
              => Len(collection') = Len(collection) + 1
       /\ ~(last'.op = "ingest" /\ last'.outcome = "ok")
              => collection' = collection]_vars

C10_Witness ==
    /\ last.op = "recent" /\ last.outcome = "ok"
    /\ Len(ingested) >= 1
    /\ \E i \in DOMAIN last.fetched :
           /\ last.fetched[i].timestamp.kind = "str"
           /\ last.fetched[i] = collection[last.fetched[i]._id]

====
